---- MODULE Spec2Model ----
(***************************************************************************)
(* Colony analysis core: the Colony Analysis Orchestrator                   *)
(* (colony_analysis/analysis/colony.py, class ColonyAnalyzer) and the       *)
(* Segmentation Engine (colony_analysis/core/sam_model.py, class SAMModel). *)
(*                                                                          *)
(* A colony record is a Python dict: here a function whose DOMAIN is the    *)
(* set of keys present.  The records of a batch are objects shared between  *)
(* the caller's list and the list analyze returns, so the batch is a heap   *)
(* (colonies[i] is the current content of the object at input position i)   *)
(* and the lists the code builds hold references (positions).               *)
(***************************************************************************)
EXTENDS Integers, Sequences, FiniteSets, TLC

VARIABLES
    \* ---- ColonyAnalyzer -------------------------------------------------
    sam_model,            \* self.sam_model is not None
    feature_extractors,   \* self.feature_extractors (extractor types, in order)
    advanced,             \* the advanced argument of analyze
    colonies,             \* the record objects of the batch, by input position
    idx,                  \* the loop of analyze: position of the current record
    pc,                   \* the statement of analyze / analyze_colony reached
    analyzed_colonies,    \* the local list of analyze (references)
    result,               \* the list analyze returned (references)
    orig,                 \* history: the records as they were when analyze was called
    stages,               \* history: per position, the stages executed, in order
    raisedAt,             \* history: per position, the stage that raised ("none")
    preAdvanced,          \* history: per position, the record just before step 100
    preQuality,           \* history: per position, the record just before step 104
    \* ---- SAMModel.segment_everything -----------------------------------
    masks_data,           \* what mask_generator.generate returned
    min_area, max_area,   \* the thresholds; max_area is <<>> for None, <<n>> for n
    se_masks, se_scores,  \* the two lists returned
    se_pc,
    \* ---- SAMModel.segment_grid -------------------------------------------
    rows, cols,           \* the grid
    cell_fails,           \* the cells whose segment_with_prompts call raises
    grid_masks, grid_labels,
    grid_pc,
    \* ---- SAMModel.find_diffusion_zone ------------------------------------
    colony_mask,          \* the set of foreground pixels of the mask
    expansion_pixels,
    diffusion_mask,       \* the set of pixels of the returned boolean mask
    dz_pc

analyzerVars == <<sam_model, feature_extractors, advanced, colonies, idx, pc,
                  analyzed_colonies, result, orig, stages, raisedAt,
                  preAdvanced, preQuality>>
everythingVars == <<masks_data, min_area, max_area, se_masks, se_scores, se_pc>>
gridVars == <<rows, cols, cell_fails, grid_masks, grid_labels, grid_pc>>
diffusionVars == <<colony_mask, expansion_pixels, diffusion_mask, dz_pc>>
vars == <<analyzerVars, everythingVars, gridVars, diffusionVars>>

(***************************************************************************)
(* Bounds of the model.                                                     *)
(***************************************************************************)
MaxBatch == 2          \* records in a batch: 0..MaxBatch
ImgH == 2              \* image height in pixels
ImgW == 3              \* image width in pixels
MaxExpansion == 9      \* expansion_pixels ranges over -MaxNegExpansion..MaxExpansion
MaxNegExpansion == 3
MaxCands == 3          \* candidates the unprompted generator returns: 0..MaxCands
MaxArea == 3           \* candidate areas and thresholds: 0..MaxArea
MaxRows == 27          \* grid rows: 1..MaxRows
MaxCols == 2           \* grid columns: 1..MaxCols
MaxExhaustiveCells == 6 \* grids up to this size take every failure pattern

(***************************************************************************)
(* Program constants.                                                       *)
(***************************************************************************)
DefaultQuality == 50        \* colony.get("quality_score", 0.5), in hundredths
LowQuality == 30            \* quality < 0.3, in hundredths
DefaultExpansion == 15      \* expansion_pixels: int = 15
KernelRadius == 1           \* np.ones((3, 3)): the 3x3 neighbourhood
PixelsPerIteration == 3     \* expansion_pixels // 3
FirstRowLetter == 65        \* chr(65 + i)
Uint8 == 256                \* np.uint8 arithmetic is modulo 2^8

(***************************************************************************)
(* Python dict operations on a function with a set of keys as DOMAIN.       *)
(***************************************************************************)
EmptyDict == [x \in {} |-> 0]

Has(d, key) == key \in DOMAIN d

Get(d, key, default) == IF key \in DOMAIN d THEN d[key] ELSE default

Put(d, key, v) == [x \in DOMAIN d \cup {key} |-> IF x = key THEN v ELSE d[x]]

Update(d, m) ==
    [x \in DOMAIN d \cup DOMAIN m |-> IF x \in DOMAIN m THEN m[x] ELSE d[x]]

(***************************************************************************)
(* Masks: a binary mask is the set of its foreground pixels <<y, x>>.       *)
(***************************************************************************)
Pixels == (0 .. ImgH - 1) \X (0 .. ImgW - 1)

MaskValue(mask, p) == IF p \in mask THEN 1 ELSE 0    \* astype(np.uint8)

Max(a, b) == IF a >= b THEN a ELSE b

Abs(n) == IF n < 0 THEN -n ELSE n

\* One pass of cv2.dilate with the 3x3 kernel: every set pixel sets the pixels
\* of its 3x3 neighbourhood that lie inside the image (the border contributes
\* nothing).
Neighbourhood(q) ==
    {p \in Pixels : /\ Abs(p[1] - q[1]) <= KernelRadius
                    /\ Abs(p[2] - q[2]) <= KernelRadius}

Dilate1(mask) == UNION {Neighbourhood(q) : q \in mask}

RECURSIVE Dilate(_, _)
Dilate(mask, iterations) ==
    IF iterations <= 0 THEN mask ELSE Dilate(Dilate1(mask), iterations - 1)

Iterations(expansion) == Max(1, expansion \div PixelsPerIteration)

\* Mutant: the expanded mask is returned without subtracting the colony.
find_diffusion_zone_keeps_colony(mask, expansion) ==
    Dilate(mask, Iterations(expansion))

find_diffusion_zone(mask, expansion) ==
    LET expanded_mask == Dilate(mask, Iterations(expansion))
    IN  {p \in Pixels :
            (MaskValue(expanded_mask, p) - MaskValue(mask, p)) % Uint8 > 0}

(***************************************************************************)
(* Text: chr (code points 65..95), str of a natural number, str.join.      *)
(***************************************************************************)
AsciiFrom65 ==
    <<"A", "B", "C", "D", "E", "F", "G", "H", "I", "J", "K", "L", "M",
      "N", "O", "P", "Q", "R", "S", "T", "U", "V", "W", "X", "Y", "Z",
      "[", "\\", "]", "^", "_">>

Chr(code) == AsciiFrom65[code - 64]

DecimalDigits == <<"0", "1", "2", "3", "4", "5", "6", "7", "8", "9">>

RECURSIVE Str(_)
Str(n) ==
    IF n < 10 THEN DecimalDigits[n + 1]
    ELSE Str(n \div 10) \o DecimalDigits[(n % 10) + 1]

RECURSIVE Join(_, _)
Join(sep, items) ==
    IF Len(items) = 0 THEN ""
    ELSE IF Len(items) = 1 THEN items[1]
    ELSE items[1] \o sep \o Join(sep, Tail(items))

(***************************************************************************)
(* External capabilities of the orchestrator (features.py, scoring.py):     *)
(* deterministic stand-ins for extract, calculate_scores, classify_phenotype*)
(***************************************************************************)
FrontExtractors == <<"basic", "aerial">>
BackExtractors == <<"basic", "metabolite">>

extract(type, img, mask) ==
    CASE type = "basic" -> [area |-> Cardinality(mask)]
      [] type = "aerial" -> [aerial_ratio |-> 1]
      [] OTHER -> [pigment_ratio |-> 1]

calculate_scores(features) == [feature_count |-> Cardinality(DOMAIN features)]

classify_phenotype(features) ==
    [morphology |-> IF Has(features, "aerial_ratio") THEN "aerial" ELSE "pigmented"]

(***************************************************************************)
(* ColonyAnalyzer.analyze_colony, statement by statement.  A step maps the  *)
(* record to the record it leaves and tells whether it raised.              *)
(***************************************************************************)
Outcome(c, r) == [colony |-> c, raised |-> r]

\* lines 74-79
EnsureStructures(c) ==
    LET c1 == IF ~Has(c, "features") THEN Put(c, "features", EmptyDict) ELSE c
        c2 == IF ~Has(c1, "scores") THEN Put(c1, "scores", EmptyDict) ELSE c1
    IN  IF ~Has(c2, "phenotype") THEN Put(c2, "phenotype", EmptyDict) ELSE c2

\* Mutant: a record is skipped only when both img and mask are missing.
MissingDataBoth(c) == ~Has(c, "img") /\ ~Has(c, "mask")

\* line 82
MissingData(c) == ~Has(c, "img") \/ ~Has(c, "mask")

\* lines 87-89; failAt is the extractor whose extract call raises (0: none).
\* Reading colony["img"] or colony["mask"] of a record without it raises KeyError.
RECURSIVE ExtractLoop(_, _, _, _)
ExtractLoop(c, extractors, k, failAt) ==
    IF k > Len(extractors) THEN Outcome(c, FALSE)
    ELSE IF ~Has(c, "img") \/ ~Has(c, "mask") THEN Outcome(c, TRUE)
    ELSE IF k = failAt THEN Outcome(c, TRUE)
    ELSE ExtractLoop(
            Put(c, "features",
                Update(c["features"], extract(extractors[k], c["img"], c["mask"]))),
            extractors, k + 1, failAt)

\* lines 92-93
ScoreStep(c, fails) ==
    IF fails THEN Outcome(c, TRUE)
    ELSE Outcome(Put(c, "scores",
                     Update(c["scores"], calculate_scores(c["features"]))), FALSE)

\* lines 96-97
ClassifyStep(c, fails) ==
    IF fails THEN Outcome(c, TRUE)
    ELSE Outcome(Put(c, "phenotype",
                     Update(c["phenotype"], classify_phenotype(c["features"]))), FALSE)

RECURSIVE Gcd(_, _)
Gcd(a, b) == IF b = 0 THEN a ELSE Gcd(b, a % b)

\* line 134 and float(): the quotient as a fraction in lowest terms, 0 as <<0, 1>>
DiffusionRatio(diffusion_area, colony_area) ==
    IF colony_area > 0
    THEN LET g == Gcd(diffusion_area, colony_area)
         IN  <<diffusion_area \div g, colony_area \div g>>
    ELSE <<0, 1>>

AdvancedOutcomes == {"ok", "zone_fails", "ratio_fails"}

\* lines 118-139; every exception is caught at line 138.
\*   zone_fails:  find_diffusion_zone raises (line 122)
\*   ratio_fails: lines 132-136 raise, after advanced_masks was written
perform_advanced_analysis(c, outcome) ==
    IF outcome = "zone_fails" THEN c
    ELSE
        LET diffusion == find_diffusion_zone(c["mask"], DefaultExpansion)
            c1 == IF ~Has(c, "advanced_masks")
                  THEN Put(c, "advanced_masks", EmptyDict) ELSE c
            c2 == Put(c1, "advanced_masks",
                      Put(c1["advanced_masks"], "diffusion", diffusion))
            ratio == DiffusionRatio(Cardinality(diffusion), Cardinality(c["mask"]))
        IN  IF outcome = "ratio_fails" THEN c2
            ELSE Put(c2, "features",
                     Put(c2["features"], "metabolite_diffusion_ratio", ratio))

\* lines 100-101
AdvancedRuns(adv, engine) == adv /\ engine

\* lines 104-106; colony['id'] of a record without id raises KeyError.
QualityStep(c) ==
    LET quality == Get(c, "quality_score", DefaultQuality)
    IN  IF quality < LowQuality
        THEN IF Has(c, "id") THEN Outcome(c, FALSE) ELSE Outcome(c, TRUE)
        ELSE Outcome(c, FALSE)

\* lines 112-115
AffectedWells(c) ==
    LET affected_wells == Get(c, "overlapping_wells", <<>>)
    IN  IF Len(affected_wells) > 0 THEN Join(", ", affected_wells) ELSE "none"

\* lines 109-115
CrossBoundaryStep(c) ==
    IF Get(c, "cross_boundary", FALSE)
    THEN Put(c, "phenotype",
             Put(Put(c["phenotype"], "special_case", "cross_boundary"),
                 "affected_wells", AffectedWells(c)))
    ELSE c

(***************************************************************************)
(* ColonyAnalyzer.analyze: the loop over the batch.                         *)
(***************************************************************************)
Positions == 1 .. Len(colonies)

Finished(i) == \E n \in 1 .. Len(analyzed_colonies) : analyzed_colonies[n] = i

Log(i, stage) == [stages EXCEPT ![i] = Append(@, stage)]

historyVars == <<orig, preAdvanced, preQuality>>
configVars == <<sam_model, feature_extractors, advanced>>
engineVars == <<everythingVars, gridVars, diffusionVars>>

\* lines 62-63: analyze_colony returned the record object it was given
Returns(i) ==
    /\ analyzed_colonies' = Append(analyzed_colonies, i)
    /\ pc' = "loop"
    /\ raisedAt' = raisedAt

\* Mutant: the handler logs the error and appends nothing.
CatchesDrops(i, stage) ==
    /\ analyzed_colonies' = analyzed_colonies
    /\ pc' = "loop"
    /\ raisedAt' = [raisedAt EXCEPT ![i] = stage]

\* Mutant: the handler runs the record through analyze_colony again.
CatchesRetries(i, stage) ==
    /\ analyzed_colonies' = analyzed_colonies
    /\ pc' = IF Len(stages[i]) < 4 THEN "validate" ELSE "loop"
    /\ raisedAt' = [raisedAt EXCEPT ![i] = stage]

\* lines 64-66: the handler appends the loop variable, the same record object
Catches(i, stage) ==
    /\ analyzed_colonies' = Append(analyzed_colonies, i)
    /\ pc' = "loop"
    /\ raisedAt' = [raisedAt EXCEPT ![i] = stage]

\* A step of analyze_colony on the current record ended with outcome o:
\* the record object keeps what the step wrote; control goes on or to the handler.
StepEnds(o, stage, nextPc) ==
    /\ colonies' = [colonies EXCEPT ![idx] = o.colony]
    /\ stages' = Log(idx, stage)
    /\ IF o.raised
       THEN Catches(idx, stage)
       ELSE /\ pc' = nextPc
            /\ UNCHANGED <<analyzed_colonies, raisedAt>>

\* lines 54-58
AnalyzeCall ==
    /\ pc = "call"
    /\ IF Len(colonies) = 0
       THEN /\ pc' = "returned"
            /\ result' = <<>>
            /\ UNCHANGED analyzed_colonies
       ELSE /\ pc' = "loop"
            /\ analyzed_colonies' = <<>>
            /\ UNCHANGED result
    /\ UNCHANGED <<configVars, colonies, idx, stages, raisedAt, historyVars>>
    /\ UNCHANGED engineVars

\* line 60, and lines 68-69 when the batch is exhausted
Iterate ==
    /\ pc = "loop"
    /\ IF idx < Len(colonies)
       THEN /\ idx' = idx + 1
            /\ pc' = "validate"
            /\ UNCHANGED result
       ELSE /\ pc' = "returned"
            /\ result' = analyzed_colonies
            /\ UNCHANGED idx
    /\ UNCHANGED <<configVars, colonies, analyzed_colonies, stages, raisedAt,
                   historyVars>>
    /\ UNCHANGED engineVars

\* lines 74-84
Validate ==
    /\ pc = "validate"
    /\ LET c == EnsureStructures(colonies[idx])
       IN  /\ colonies' = [colonies EXCEPT ![idx] = c]
           /\ stages' = Log(idx, "validate")
           /\ IF MissingData(c)
              THEN Returns(idx)
              ELSE /\ pc' = "extract"
                   /\ UNCHANGED <<analyzed_colonies, raisedAt>>
    /\ UNCHANGED <<configVars, idx, result, historyVars>>
    /\ UNCHANGED engineVars

\* lines 87-89
ExtractFeatures ==
    /\ pc = "extract"
    /\ \E failAt \in 0 .. Len(feature_extractors) :
          StepEnds(ExtractLoop(colonies[idx], feature_extractors, 1, failAt),
                   "extract", "score")
    /\ UNCHANGED <<configVars, idx, result, historyVars>>
    /\ UNCHANGED engineVars

\* lines 92-93
Score ==
    /\ pc = "score"
    /\ \E fails \in BOOLEAN :
          StepEnds(ScoreStep(colonies[idx], fails), "score", "classify")
    /\ UNCHANGED <<configVars, idx, result, historyVars>>
    /\ UNCHANGED engineVars

\* lines 96-97
Classify ==
    /\ pc = "classify"
    /\ \E fails \in BOOLEAN :
          StepEnds(ClassifyStep(colonies[idx], fails), "classify", "advanced")
    /\ UNCHANGED <<configVars, idx, result, historyVars>>
    /\ UNCHANGED engineVars

\* lines 100-101 with 118-139
Advanced ==
    /\ pc = "advanced"
    /\ preAdvanced' = [preAdvanced EXCEPT ![idx] = colonies[idx]]
    /\ IF AdvancedRuns(advanced, sam_model)
       THEN \E outcome \in AdvancedOutcomes :
               /\ colonies' = [colonies EXCEPT
                     ![idx] = perform_advanced_analysis(colonies[idx], outcome)]
               /\ stages' = Log(idx, IF outcome = "ok" THEN "advanced"
                                     ELSE "advanced_failed")
       ELSE UNCHANGED <<colonies, stages>>
    /\ pc' = "quality"
    /\ UNCHANGED <<configVars, idx, result, analyzed_colonies, raisedAt, orig,
                   preQuality>>
    /\ UNCHANGED engineVars

\* lines 104-106
Quality ==
    /\ pc = "quality"
    /\ preQuality' = [preQuality EXCEPT ![idx] = colonies[idx]]
    /\ StepEnds(QualityStep(colonies[idx]), "quality", "cross_boundary")
    /\ UNCHANGED <<configVars, idx, result, orig, preAdvanced>>
    /\ UNCHANGED engineVars

\* lines 109-116 and the return to lines 62-63
CrossBoundary ==
    /\ pc = "cross_boundary"
    /\ colonies' = [colonies EXCEPT ![idx] = CrossBoundaryStep(colonies[idx])]
    /\ stages' = Log(idx, "cross_boundary")
    /\ Returns(idx)
    /\ UNCHANGED <<configVars, idx, result, historyVars>>
    /\ UNCHANGED engineVars

(***************************************************************************)
(* Colony records the upstream detection stage can hand over.  A field is   *)
(* given as <<>> (key absent) or <<v>> (key present with value v).          *)
(***************************************************************************)
MkRecord(opts) ==
    [key \in {x \in DOMAIN opts : Len(opts[x]) > 0} |-> opts[key][1]]

Absent == <<>>

OnePixel == {<<0, 0>>}

\* the records of a batch: a complete record, a record without mask, and a
\* low-quality record without id
BatchRecords ==
    {MkRecord([id |-> <<1>>, img |-> <<"img">>, mask |-> <<OnePixel>>,
               cross_boundary |-> <<TRUE>>,
               overlapping_wells |-> <<<<"A1", "A2">>>>]),
     MkRecord([id |-> <<2>>, img |-> <<"img">>, mask |-> Absent]),
     MkRecord([id |-> Absent, img |-> <<"img">>, mask |-> <<OnePixel>>,
               quality_score |-> <<20>>])}

\* the records of a single-record call: every combination of the fields
ItemRecords ==
    {MkRecord(o) : o \in
        [id : {Absent, <<1>>},
         img : {Absent, <<"img">>},
         mask : {Absent, <<{}>>, <<OnePixel>>},
         features : {Absent, <<EmptyDict>>, <<[area |-> 99]>>},
         scores : {Absent, <<[manual_score |-> 5]>>},
         phenotype : {Absent, <<[special_case |-> "manual"]>>},
         quality_score : {Absent, <<29>>, <<30>>},
         cross_boundary : {Absent, <<FALSE>>, <<TRUE>>},
         overlapping_wells : {Absent, <<<<>>>>, <<<<"A1", "A2">>>>},
         advanced_masks : {Absent, <<[manual |-> OnePixel]>>}]}

Batches == UNION {[1 .. n -> BatchRecords] : n \in 0 .. MaxBatch}

SingleItemBatches == {<<c>> : c \in ItemRecords}

\* The other component is not running.
EverythingIdle ==
    /\ masks_data = <<>> /\ min_area = 0 /\ max_area = <<>>
    /\ se_masks = <<>> /\ se_scores = <<>> /\ se_pc = "idle"

GridIdle ==
    /\ rows = 1 /\ cols = 1 /\ cell_fails = {}
    /\ grid_masks = <<>> /\ grid_labels = <<>> /\ grid_pc = "idle"

DiffusionIdle ==
    /\ colony_mask = {} /\ expansion_pixels = DefaultExpansion
    /\ diffusion_mask = {} /\ dz_pc = "idle"

AnalyzerIdle ==
    /\ sam_model = FALSE /\ feature_extractors = FrontExtractors
    /\ advanced = FALSE /\ colonies = <<>> /\ idx = 0 /\ pc = "idle"
    /\ analyzed_colonies = <<>> /\ result = <<>> /\ orig = <<>>
    /\ stages = <<>> /\ raisedAt = <<>> /\ preAdvanced = <<>> /\ preQuality = <<>>

\* lines 19-33 (construction) and the call of analyze on a batch
InitAnalyzer(batches) ==
    /\ sam_model \in BOOLEAN
    /\ feature_extractors \in {FrontExtractors, BackExtractors}
    /\ advanced \in BOOLEAN
    /\ colonies \in batches
    /\ orig = colonies
    /\ preAdvanced = colonies
    /\ preQuality = colonies
    /\ idx = 0
    /\ pc = "call"
    /\ analyzed_colonies = <<>>
    /\ result = <<>>
    /\ stages = [i \in 1 .. Len(colonies) |-> <<>>]
    /\ raisedAt = [i \in 1 .. Len(colonies) |-> "none"]
    /\ EverythingIdle /\ GridIdle /\ DiffusionIdle

Init == InitAnalyzer(Batches)

InitItem == InitAnalyzer(SingleItemBatches)

Next ==
    \/ AnalyzeCall
    \/ Iterate
    \/ Validate
    \/ ExtractFeatures
    \/ Score
    \/ Classify
    \/ Advanced
    \/ Quality
    \/ CrossBoundary

\* analyze on batches of 0..MaxBatch records
Spec == Init /\ [][Next]_vars

\* analyze on one record, over every combination of its fields
SpecItem == InitItem /\ [][Next]_vars

(***************************************************************************)
(* Properties of ColonyAnalyzer.                                            *)
(***************************************************************************)
InLog(i, stage) == \E n \in 1 .. Len(stages[i]) : stages[i][n] = stage

EnteredAdvanced(i) == InLog(i, "advanced") \/ InLog(i, "advanced_failed")

StageOrder ==
    <<"validate", "extract", "score", "classify", "advanced", "quality",
      "cross_boundary">>

StageRank(stage) ==
    IF stage = "advanced_failed" THEN 5
    ELSE CHOOSE n \in 1 .. Len(StageOrder) : StageOrder[n] = stage

StructureKeys == {"features", "scores", "phenotype"}

\* C1: a record whose analysis raised is returned with no field changed
\* relative to its state before analyze was called, and every record of the
\* batch is still processed.
C1_FailureContainment ==
    /\ \A i \in Positions :
          (raisedAt[i] # "none" /\ Finished(i)) => colonies[i] = orig[i]
    /\ pc = "returned" => \A i \in Positions : Finished(i)

\* C2: analyze is at a statement of its loop until it returns (no exception
\* leaves it), and the list it returns has the
\* length of the input, its element at position i being the record object that
\* was at input position i.
C2_BatchLengthAndOrder ==
    /\ pc \in {"call", "loop", "validate", "extract", "score", "classify",
               "advanced", "quality", "cross_boundary", "returned"}
    /\ pc = "returned" =>
          /\ Len(result) = Len(colonies)
          /\ \A i \in Positions : result[i] = i

C2_Witness ==
    /\ pc = "returned"
    /\ Len(result) = 2
    /\ raisedAt[1] = "extract"
    /\ stages[2] = <<"validate">>

ExpectedWells(c) ==
    IF Has(c, "overlapping_wells") /\ c["overlapping_wells"] # <<>>
    THEN Join(", ", c["overlapping_wells"])
    ELSE "none"

\* C3: a record with cross_boundary = true that entered advanced analysis ends
\* per-item analysis with phenotype.special_case = cross_boundary and
\* phenotype.affected_wells = the joined overlapping_wells, or none.
C3_CrossBoundaryResolved ==
    \A i \in Positions :
        (Finished(i) /\ EnteredAdvanced(i) /\ Get(orig[i], "cross_boundary", FALSE))
        => /\ Has(colonies[i]["phenotype"], "special_case")
           /\ colonies[i]["phenotype"]["special_case"] = "cross_boundary"
           /\ Has(colonies[i]["phenotype"], "affected_wells")
           /\ colonies[i]["phenotype"]["affected_wells"] = ExpectedWells(orig[i])

\* C4: a record lacking img or mask leaves analyze_colony without an exception
\* and without any extractor, scoring, classification or advanced step; its
\* features, scores and phenotype are mappings with the contents they had on
\* entry (empty if absent) and no other field is changed.
C4_MissingDataNoOp ==
    \A i \in Positions :
        (stages[i] # <<>> /\ (~Has(orig[i], "img") \/ ~Has(orig[i], "mask")))
        => /\ raisedAt[i] = "none"
           /\ stages[i] = <<"validate">>
           /\ Finished(i)
           /\ DOMAIN colonies[i] = DOMAIN orig[i] \cup StructureKeys
           /\ \A key \in StructureKeys :
                 colonies[i][key] = Get(orig[i], key, EmptyDict)
           /\ \A key \in DOMAIN orig[i] \ StructureKeys :
                 colonies[i][key] = orig[i][key]

C4_Witness ==
    /\ pc = "returned"
    /\ ~Has(orig[1], "mask") /\ Has(orig[1], "img") /\ ~Has(orig[1], "id")
    /\ Has(orig[1], "features") /\ orig[1]["features"] # EmptyDict
    /\ ~Has(orig[1], "scores")
    /\ Get(orig[1], "quality_score", DefaultQuality) < LowQuality
    /\ result = <<1>>

\* C8: a record that reaches the quality check with quality_score < 0.3, with
\* or without an id, raises nothing there and has no field changed by the
\* check, and the cross-boundary step still runs.
C8_LowQualityNonFatal ==
    \A i \in Positions :
        (InLog(i, "quality")
            /\ Get(orig[i], "quality_score", DefaultQuality) < LowQuality)
        => /\ raisedAt[i] # "quality"
           /\ (pc = "cross_boundary" /\ idx = i) => colonies[i] = preQuality[i]
           /\ Finished(i) => InLog(i, "cross_boundary")

\* C9: advanced analysis never propagates a failure; after a failure features,
\* scores and phenotype are as before the step and the quality and
\* cross-boundary steps still execute; on success advanced_masks.diffusion is
\* the estimated zone and features.metabolite_diffusion_ratio the quotient of
\* the areas (0 for an empty colony); without advanced or engine neither is added.
C9_AdvancedContained ==
    \A i \in Positions :
        /\ raisedAt[i] \notin {"advanced", "advanced_failed"}
        /\ (InLog(i, "advanced_failed") /\ pc = "quality" /\ idx = i)
           => \A key \in StructureKeys : colonies[i][key] = preAdvanced[i][key]
        /\ (EnteredAdvanced(i) /\ Finished(i))
           => InLog(i, "quality") /\ InLog(i, "cross_boundary")
        /\ (InLog(i, "advanced") /\ pc = "quality" /\ idx = i)
           => /\ colonies[i]["advanced_masks"]["diffusion"]
                    = find_diffusion_zone(orig[i]["mask"], DefaultExpansion)
              /\ colonies[i]["features"]["metabolite_diffusion_ratio"]
                    = IF orig[i]["mask"] = {} THEN <<0, 1>>
                      ELSE DiffusionRatio(
                              Cardinality(colonies[i]["advanced_masks"]["diffusion"]),
                              Cardinality(orig[i]["mask"]))
        /\ (Finished(i) /\ ~(advanced /\ sam_model))
           => /\ Has(colonies[i], "advanced_masks") = Has(orig[i], "advanced_masks")
              /\ Has(colonies[i], "advanced_masks")
                    => colonies[i]["advanced_masks"] = orig[i]["advanced_masks"]
              /\ ~Has(colonies[i]["features"], "metabolite_diffusion_ratio")

\* C10: a stage runs only on the current record, which has not finished and
\* has not failed, after every earlier record of the batch has finished, and
\* it is a later stage than every stage the record has run.
C10_StageOrdering ==
    [][\A i \in Positions :
          \/ stages'[i] = stages[i]
          \/ /\ i = idx
             /\ ~Finished(i)
             /\ raisedAt[i] = "none"
             /\ \A j \in 1 .. i - 1 : Finished(j)
             /\ Len(stages'[i]) = Len(stages[i]) + 1
             /\ SubSeq(stages'[i], 1, Len(stages[i])) = stages[i]
             /\ \A n \in 1 .. Len(stages[i]) :
                   StageRank(stages[i][n]) < StageRank(stages'[i][Len(stages'[i])])
      ]_vars

C10_Witness ==
    /\ pc = "returned"
    /\ Len(colonies) = 2
    /\ raisedAt[1] = "score"
    /\ stages[2] = <<"validate", "extract", "score", "classify",
                     "advanced_failed", "quality", "cross_boundary">>

(***************************************************************************)
(* SAMModel.segment_everything: the area filter over the candidates of the  *)
(* unprompted generator.  A candidate is the dict the generator yields; its *)
(* segmentation is named by its position in the generator's list and its    *)
(* stability_score is distinct per candidate.                               *)
(***************************************************************************)
Candidate(position, area) ==
    [segmentation |-> position, stability_score |-> 100 - position, area |-> area]

CandidateLists ==
    UNION {{[i \in 1 .. n |-> Candidate(i, areas[i])] :
                areas \in [1 .. n -> 0 .. MaxArea]} : n \in 0 .. MaxCands}

\* Mutant: max_area is tested for truth, so max_area = 0 filters nothing.
KeepsCandidateTruthyMax(area, minArea, maxArea) ==
    /\ ~(area < minArea)
    /\ ~(maxArea # <<>> /\ maxArea[1] # 0 /\ area > maxArea[1])

\* lines 129-132: neither continue is taken
KeepsCandidate(area, minArea, maxArea) ==
    /\ ~(area < minArea)
    /\ ~(maxArea # <<>> /\ area > maxArea[1])

\* lines 120-137
RECURSIVE FilterLoop(_, _, _, _, _, _)
FilterLoop(data, k, minArea, maxArea, masks, scores) ==
    IF k > Len(data) THEN [masks |-> masks, scores |-> scores]
    ELSE LET mask == data[k]["segmentation"]
             score == data[k]["stability_score"]
             area == data[k]["area"]
         IN  IF KeepsCandidate(area, minArea, maxArea)
             THEN FilterLoop(data, k + 1, minArea, maxArea,
                             Append(masks, mask), Append(scores, score))
             ELSE FilterLoop(data, k + 1, minArea, maxArea, masks, scores)

segment_everything(data, minArea, maxArea) ==
    FilterLoop(data, 1, minArea, maxArea, <<>>, <<>>)

InitEverything ==
    /\ masks_data \in CandidateLists
    /\ min_area \in 0 .. MaxArea
    /\ max_area \in {<<>>} \cup {<<a>> : a \in 0 .. MaxArea}
    /\ se_masks = <<>>
    /\ se_scores = <<>>
    /\ se_pc = "call"
    /\ AnalyzerIdle /\ GridIdle /\ DiffusionIdle

SegmentEverything ==
    /\ se_pc = "call"
    /\ LET out == segment_everything(masks_data, min_area, max_area)
       IN  /\ se_masks' = out.masks
           /\ se_scores' = out.scores
    /\ se_pc' = "done"
    /\ UNCHANGED <<masks_data, min_area, max_area>>
    /\ UNCHANGED <<analyzerVars, gridVars, diffusionVars>>

NextEverything == SegmentEverything

SpecEverything == InitEverything /\ [][NextEverything]_vars

InAreaRange(area) ==
    /\ min_area <= area
    /\ max_area # <<>> => area <= max_area[1]

\* C6: segment_everything returns a candidate iff min_area <= area <= max_area
\* (no upper bound when max_area is unset); masks and scores are parallel, of
\* equal length, in the generator's order; no candidates give two empty lists.
C6_AreaFilter ==
    se_pc = "done" =>
        /\ Len(se_masks) = Len(se_scores)
        /\ \A i \in 1 .. Len(masks_data) :
              InAreaRange(masks_data[i]["area"])
              <=> \E k \in 1 .. Len(se_masks) :
                     se_masks[k] = masks_data[i]["segmentation"]
        /\ \A k \in 1 .. Len(se_masks) :
              \E i \in 1 .. Len(masks_data) :
                 /\ se_masks[k] = masks_data[i]["segmentation"]
                 /\ se_scores[k] = masks_data[i]["stability_score"]
        /\ \A k1, k2 \in 1 .. Len(se_masks) : k1 < k2 => se_masks[k1] < se_masks[k2]
        /\ masks_data = <<>> => (se_masks = <<>> /\ se_scores = <<>>)

C6_Witness ==
    /\ se_pc = "done"
    /\ Len(masks_data) = 3
    /\ min_area = 1
    /\ max_area = <<2>>
    /\ masks_data[1]["area"] = 1
    /\ masks_data[2]["area"] = 3
    /\ masks_data[3]["area"] = 2
    /\ se_masks = <<1, 3>>
    /\ se_scores = <<99, 97>>

(***************************************************************************)
(* SAMModel.segment_grid.  The prompted segmentation of a cell either       *)
(* raises or returns a mask; the image is taken with one pixel per cell, so *)
(* the mask a successful call returns for cell (r, c) is the pixel <<r, c>>.*)
(***************************************************************************)
GridCells(R, C) == (0 .. R - 1) \X (0 .. C - 1)

FailPatterns(R, C) ==
    IF R * C <= MaxExhaustiveCells
    THEN SUBSET GridCells(R, C)
    ELSE {{}, GridCells(R, C)} \cup {{cell} : cell \in GridCells(R, C)}

\* segment_with_prompts on the box of cell (r, c), when it does not raise
PredictedMask(r, c) == {<<r, c>>}

\* line 179: np.zeros((height, width), dtype=bool)
EmptyMask == {}

\* line 153
RowLabels(R) == [i \in 1 .. R |-> Chr(FirstRowLetter + (i - 1))]

\* line 157: [(r, c) for r in range(rows) for c in range(cols)]
CellList(R, C) ==
    [n \in 1 .. R * C |-> <<(n - 1) \div C, (n - 1) % C>>]

\* Mutant: the column number is 0-based.
CellLabelZeroBased(row_labels, r, c) == row_labels[r + 1] \o Str(c)

\* lines 176 and 181: f"{row_labels[r]}{c+1}"
CellLabel(row_labels, r, c) == row_labels[r + 1] \o Str(c + 1)

\* lines 156-181
RECURSIVE GridLoop(_, _, _, _, _, _)
GridLoop(cells, k, row_labels, fails, masks, labels) ==
    IF k > Len(cells) THEN [masks |-> masks, labels |-> labels]
    ELSE LET r == cells[k][1]
             c == cells[k][2]
         IN  IF <<r, c>> \notin fails
             THEN GridLoop(cells, k + 1, row_labels, fails,
                           Append(masks, PredictedMask(r, c)),
                           Append(labels, CellLabel(row_labels, r, c)))
             ELSE GridLoop(cells, k + 1, row_labels, fails,
                           Append(masks, EmptyMask),
                           Append(labels, CellLabel(row_labels, r, c)))

segment_grid(R, C, fails) ==
    GridLoop(CellList(R, C), 1, RowLabels(R), fails, <<>>, <<>>)

InitGrid ==
    /\ rows \in 1 .. MaxRows
    /\ cols \in 1 .. MaxCols
    /\ cell_fails \in FailPatterns(rows, cols)
    /\ grid_masks = <<>>
    /\ grid_labels = <<>>
    /\ grid_pc = "call"
    /\ AnalyzerIdle /\ EverythingIdle /\ DiffusionIdle

SegmentGrid ==
    /\ grid_pc = "call"
    /\ LET out == segment_grid(rows, cols, cell_fails)
       IN  /\ grid_masks' = out.masks
           /\ grid_labels' = out.labels
    /\ grid_pc' = "done"
    /\ UNCHANGED <<rows, cols, cell_fails>>
    /\ UNCHANGED <<analyzerVars, everythingVars, diffusionVars>>

NextGrid == SegmentGrid

SpecGrid == InitGrid /\ [][NextGrid]_vars

Alphabet ==
    <<"A", "B", "C", "D", "E", "F", "G", "H", "I", "J", "K", "L", "M",
      "N", "O", "P", "Q", "R", "S", "T", "U", "V", "W", "X", "Y", "Z">>

GridShape ==
    /\ Len(grid_masks) = rows * cols
    /\ Len(grid_labels) = rows * cols
    /\ \A cell \in GridCells(rows, cols) :
          LET n == cell[1] * cols + cell[2] + 1
          IN  /\ cell \in cell_fails => grid_masks[n] = {}
              /\ cell \notin cell_fails => grid_masks[n] = {cell}

\* C5 as stated: R*C masks and labels in row-major order, the label of cell
\* (r, c) being the letter at alphabet position r followed by the decimal c+1;
\* a failed cell has no foreground pixel and no other cell is affected.
C5_GridCompleteLetters ==
    grid_pc = "done" =>
        /\ GridShape
        /\ \A cell \in GridCells(rows, cols) :
              /\ cell[1] + 1 \in DOMAIN Alphabet
              /\ grid_labels[cell[1] * cols + cell[2] + 1]
                    = Alphabet[cell[1] + 1] \o Str(cell[2] + 1)

\* C5 as amended: the label of cell (r, c) is the character with code point
\* 65 + r followed by the decimal c+1, which is the letter at alphabet
\* position r exactly for r < 26.
C5_GridCompleteCodePoints ==
    grid_pc = "done" =>
        /\ GridShape
        /\ \A cell \in GridCells(rows, cols) :
              LET label == grid_labels[cell[1] * cols + cell[2] + 1]
              IN  /\ label = AsciiFrom65[cell[1] + 1] \o Str(cell[2] + 1)
                  /\ cell[1] < 26 => label = Alphabet[cell[1] + 1] \o Str(cell[2] + 1)

C5_Witness ==
    /\ grid_pc = "done"
    /\ rows = 27
    /\ cols = 2
    /\ cell_fails = GridCells(rows, cols)
    /\ grid_labels[4] = "B2"
    /\ grid_labels[54] = "[2"

(***************************************************************************)
(* SAMModel.find_diffusion_zone on its own.                                 *)
(***************************************************************************)
InitDiffusion ==
    /\ colony_mask \in SUBSET Pixels
    /\ expansion_pixels \in -MaxNegExpansion .. MaxExpansion
    /\ diffusion_mask = {}
    /\ dz_pc = "call"
    /\ AnalyzerIdle /\ EverythingIdle /\ GridIdle

FindDiffusionZone ==
    /\ dz_pc = "call"
    /\ diffusion_mask' = find_diffusion_zone(colony_mask, expansion_pixels)
    /\ dz_pc' = "done"
    /\ UNCHANGED <<colony_mask, expansion_pixels>>
    /\ UNCHANGED <<analyzerVars, everythingVars, gridVars>>

NextDiffusion == FindDiffusionZone

SpecDiffusion == InitDiffusion /\ [][NextDiffusion]_vars

\* the pixels within n steps (3x3 neighbourhood) of a pixel of the mask
Within(mask, n) ==
    {p \in Pixels : \E q \in mask : Abs(p[1] - q[1]) <= n /\ Abs(p[2] - q[2]) <= n}

\* C7: for a non-empty mask the result is exactly the mask dilated
\* max(1, expansion_pixels div 3) times minus the mask, it shares no pixel
\* with the mask, and the next larger expansion never gives fewer pixels (so,
\* step by step, no larger expansion does).
C7_DiffusionZone ==
    (dz_pc = "done" /\ colony_mask # {}) =>
        LET quotient == expansion_pixels \div 3
            n == IF quotient >= 1 THEN quotient ELSE 1
        IN  /\ diffusion_mask = Within(colony_mask, n) \ colony_mask
            /\ diffusion_mask \cap colony_mask = {}
            /\ expansion_pixels < MaxExpansion =>
                  Cardinality(diffusion_mask)
                     <= Cardinality(find_diffusion_zone(colony_mask,
                                                        expansion_pixels + 1))

C7_Witness ==
    /\ dz_pc = "done"
    /\ colony_mask = {<<0, 0>>}
    /\ expansion_pixels = 6
    /\ diffusion_mask = Pixels \ colony_mask

====
